---- MODULE Spec2Model ----
(***************************************************************************)
(* A model of NNModel.py: the bracket/translate rule of the classifiers,  *)
(* the construction and reading of the three dataset classes, and the     *)
(* stages of the main run.                                                 *)
(*                                                                         *)
(* Numbers.  The program computes on IEEE doubles (pandas/numpy/torch).    *)
(* A number is modelled as a record: a finite value counted in quarter    *)
(* units (Whole(1) is 1.0), or NaN (a missing CSV cell), or -inf (the log  *)
(* of 0).  Whole inputs make the two halvings of bracket exact, so the     *)
(* quarter points of a range are computed without rounding.  The field e  *)
(* of a number is its rounding excess: 0 for an exact value, 1 or -1 for   *)
(* the next double above or below v, which only np.exp produces.           *)
(***************************************************************************)
EXTENDS Integers, Sequences, FiniteSets, TLC

\* ------------------------------------------------------------------ bounds

\* Most data rows of a CSV file.
MaxRows == 3

\* The size, in whole units, of a nonzero noise sample.
NoiseAmp == 2

\* Data rows of the file the main run reads, and the epochs the model lets
\* trainer.fit run (standing for max_epochs=1000).
MainRows == 7
EpochCap == 2

\* Most records in a batch handed to ViralKineticsDNNClassifier.forward.
MaxBatch == 2

\* Largest whole value of y_min / y_max handed to a lazy classifier or held
\* by a dataset in the bracket specification.
MaxY == 2

\* ----------------------------------------------------------------- numbers

\* Quarter units per 1.0: two exact halvings of a sum of whole numbers.
Unit == 2 * 2

Num(n) == [k |-> "num", v |-> n, e |-> 0]
NaN == [k |-> "nan", v |-> 0, e |-> 0]
NegInf == [k |-> "ninf", v |-> 0, e |-> 0]
Whole(w) == Num(w * Unit)
IsNum(a) == a.k = "num"
IsNaN(a) == a.k = "nan"

\* a + b on doubles: NaN is absorbing.
Add(a, b) == IF IsNum(a) /\ IsNum(b) THEN Num(a.v + b.v) ELSE NaN
\* a / 2
Half(a) == IF IsNum(a) THEN Num(a.v \div 2) ELSE NaN
\* a > b, a < b: every comparison with NaN is False.
Gt(a, b) == IsNum(a) /\ IsNum(b) /\ (a.v > b.v \/ (a.v = b.v /\ a.e > b.e))
Lt(a, b) == IsNum(a) /\ IsNum(b) /\ (a.v < b.v \/ (a.v = b.v /\ a.e < b.e))
Le(a, b) == IsNum(a) /\ IsNum(b) /\ (a.v < b.v \/ (a.v = b.v /\ a.e <= b.e))

\* ------------------------------------------------------- bracket, translate

\* lazy_classifier.bracket with an off-by-one in the innermost return.
lazy_classifier_bracket_mut(y_min, y_max, y) ==
    LET y_mid == Half(Add(y_min, y_max))
    IN  IF Gt(y, y_mid)
        THEN IF Gt(y, Half(Add(y_mid, y_max))) THEN 4 ELSE 2
        ELSE IF Gt(y, Half(Add(y_mid, y_min))) THEN 1 ELSE 0

lazy_classifier_bracket(y_min, y_max, y) ==
    LET y_mid == Half(Add(y_min, y_max))
    IN  IF Gt(y, y_mid)
        THEN IF Gt(y, Half(Add(y_mid, y_max))) THEN 3 ELSE 2
        ELSE IF Gt(y, Half(Add(y_mid, y_min))) THEN 1 ELSE 0

\* lazy_classifier2.bracket with the two inner branches swapped.
lazy_classifier2_bracket_mut(y_min, y_max, y) ==
    LET y_mid == Half(Add(y_min, y_max))
    IN  IF Gt(y, y_mid)
        THEN IF Gt(y, Half(Add(y_mid, y_max))) THEN 2 ELSE 3
        ELSE IF Gt(y, Half(Add(y_mid, y_min))) THEN 1 ELSE 0

lazy_classifier2_bracket(y_min, y_max, y) ==
    LET y_mid == Half(Add(y_min, y_max))
    IN  IF Gt(y, y_mid)
        THEN IF Gt(y, Half(Add(y_mid, y_max))) THEN 3 ELSE 2
        ELSE IF Gt(y, Half(Add(y_mid, y_min))) THEN 1 ELSE 0

\* ODEDatasetClassifier.bracket with the lower split taken at the midpoint of
\* y_mid and y_max instead of y_mid and y_min.
ODEDatasetClassifier_bracket_mut(y_min, y_max, y) ==
    LET y_mid == Half(Add(y_min, y_max))
    IN  IF Gt(y, y_mid)
        THEN IF Gt(y, Half(Add(y_mid, y_max))) THEN 3 ELSE 2
        ELSE IF Gt(y, Half(Add(y_mid, y_max))) THEN 1 ELSE 0

ODEDatasetClassifier_bracket(y_min, y_max, y) ==
    LET y_mid == Half(Add(y_min, y_max))
    IN  IF Gt(y, y_mid)
        THEN IF Gt(y, Half(Add(y_mid, y_max))) THEN 3 ELSE 2
        ELSE IF Gt(y, Half(Add(y_mid, y_min))) THEN 1 ELSE 0

\* ODEDatasetClassifierNoisy.bracket with the midpoint itself put into the
\* upper half (>= for the first >).
ODEDatasetClassifierNoisy_bracket_mut(y_min, y_max, y) ==
    LET y_mid == Half(Add(y_min, y_max))
    IN  IF Gt(y, y_mid) \/ y = y_mid
        THEN IF Gt(y, Half(Add(y_mid, y_max))) THEN 3 ELSE 2
        ELSE IF Gt(y, Half(Add(y_mid, y_min))) THEN 1 ELSE 0

ODEDatasetClassifierNoisy_bracket(y_min, y_max, y) ==
    LET y_mid == Half(Add(y_min, y_max))
    IN  IF Gt(y, y_mid)
        THEN IF Gt(y, Half(Add(y_mid, y_max))) THEN 3 ELSE 2
        ELSE IF Gt(y, Half(Add(y_mid, y_min))) THEN 1 ELSE 0

\* The bracket method of an object of class cls.
BracketClasses ==
    {"lazy_classifier", "lazy_classifier2",
     "ODEDatasetClassifier", "ODEDatasetClassifierNoisy"}

bracket(cls, y_min, y_max, y) ==
    CASE cls = "lazy_classifier" -> lazy_classifier_bracket(y_min, y_max, y)
      [] cls = "lazy_classifier2" -> lazy_classifier2_bracket(y_min, y_max, y)
      [] cls = "ODEDatasetClassifier" -> ODEDatasetClassifier_bracket(y_min, y_max, y)
      [] cls = "ODEDatasetClassifierNoisy" ->
             ODEDatasetClassifierNoisy_bracket(y_min, y_max, y)

\* A match statement with no matching case falls through: the method
\* returns None.
None == "None"

ViralKineticsDNNClassifier_translate(prediction) ==
    CASE prediction = 0 -> "Low"
      [] prediction = 1 -> "Medium-Low"
      [] prediction = 2 -> "Medium-High"
      [] prediction = 3 -> "High"
      [] OTHER -> None

lazy_classifier_translate(prediction) ==
    CASE prediction = 0 -> "Low"
      [] prediction = 1 -> "Medium-Low"
      [] prediction = 2 -> "Medium-High"
      [] prediction = 3 -> "High"
      [] OTHER -> None

lazy_classifier2_translate(prediction) ==
    CASE prediction = 0 -> "Medium-Low"
      [] prediction = 1 -> "Medium-High"
      [] prediction = 2 -> "High"
      [] prediction = 3 -> "High"
      [] OTHER -> None

TranslateClasses ==
    {"ViralKineticsDNNClassifier", "lazy_classifier", "lazy_classifier2"}

translate(cls, prediction) ==
    CASE cls = "ViralKineticsDNNClassifier" ->
             ViralKineticsDNNClassifier_translate(prediction)
      [] cls = "lazy_classifier" -> lazy_classifier_translate(prediction)
      [] cls = "lazy_classifier2" -> lazy_classifier2_translate(prediction)

\* --------------------------------------------------------------- data frame

\* Widths the code fixes: x = row[0:6], the [len(data), 12] noise matrix,
\* torch.zeros(4).
NumPre == 6
NumCols == 12
NumClasses == 4

\* The header of the CSV after its index column is dropped; the label
\* columns in the order of y_cols.
XCols == <<"xTarget", "xPre-Infected", "xInfected", "xVirus", "xCDE8e", "xCD8m">>
YCols == <<"yTarget", "yPre-Infected", "yInfected", "yVirus", "yCDE8e", "yCD8m">>
Header == XCols \o YCols
Range(s) == {s[i] : i \in DOMAIN s}

\* A frame: its column names and its rows, each row a sequence of numbers.
Frame(cols, rows) == [cols |-> cols, rows |-> rows]

\* np.log on doubles, in hundredths: log(NaN) and the log of a negative are
\* NaN, log(0) is -inf.  LnTable[w] is 100 ln(w) rounded, for whole w.
LogScale == 25 * Unit
LnTable == <<0, 69, 110, 139, 161, 179, 195, 208, 220, 230, 240, 248, 256, 264, 271, 277>>
LnFrac == <<-139, -69, -29>>
Log(a) ==
    CASE ~IsNum(a) -> NaN
      [] IsNum(a) /\ a.v < 0 -> NaN
      [] IsNum(a) /\ a.v = 0 -> NegInf
      [] IsNum(a) /\ a.v > 0 /\ a.v < Unit -> Num(LnFrac[a.v])
      [] OTHER -> Num(LnTable[a.v \div Unit])

\* np.exp applied to a stored logarithm.  On doubles exp(log(w)) is w for
\* some w and the double next to w for others; ExpLogRounding[w] is 0, 1 or
\* -1 for w = 1 .. 16: exact, the next double above, the next double below
\* (exp(log(3.0)) is 3.0000000000000004, exp(log(5.0)) is 4.999999999999999).
ExpLogRounding == <<0, 0, 1, 0, -1, 0, -1, -1, 1, 1, 1, 0, 0, -1, 0, -1>>
Exp(a) ==
    CASE IsNaN(a) -> NaN
      [] a = NegInf -> Num(0)
      [] IsNum(a) /\ a.v < 0 -> Num(CHOOSE q \in DOMAIN LnFrac : LnFrac[q] = a.v)
      [] OTHER ->
             LET w == CHOOSE u \in DOMAIN LnTable : LnTable[u] = a.v
             IN  [k |-> "num", v |-> w * Unit, e |-> ExpLogRounding[w]]

\* data.drop(data.columns[0], axis=1)
DropFirstColumn(data) ==
    Frame(Tail(data.cols), [r \in DOMAIN data.rows |-> Tail(data.rows[r])])

\* data + noise, cell by cell.
AddFrame(data, noise) ==
    Frame(data.cols,
          [r \in DOMAIN data.rows |->
              [c \in DOMAIN data.rows[r] |-> Add(data.rows[r][c], noise[r][c])]])

\* data.mask(data < 1, 1) with nothing replaced.
mask_mut(data) == data

\* data.mask(data < 1, 1): a cell is replaced where the comparison is True.
mask(data) ==
    Frame(data.cols,
          [r \in DOMAIN data.rows |->
              [c \in DOMAIN data.rows[r] |->
                  IF Lt(data.rows[r][c], Whole(1)) THEN Whole(1)
                  ELSE data.rows[r][c]]])

\* data[name] = np.log(data[name]) for the six x columns.
LogColumns(data) ==
    Frame(data.cols,
          [r \in DOMAIN data.rows |->
              [c \in DOMAIN data.rows[r] |->
                  IF data.cols[c] \in Range(XCols) THEN Log(data.rows[r][c])
                  ELSE data.rows[r][c]]])

\* y_cols.pop(atr): the list without its atr-th element (atr counted from 0).
\* A negative atr counts from the end.
Pop(s, atr) ==
    LET k == IF atr < 0 THEN atr + Len(s) ELSE atr
    IN  [i \in 1..(Len(s) - 1) |-> IF i <= k THEN s[i] ELSE s[i + 1]]
PopRaises(s, atr) == atr >= Len(s) \/ atr < -Len(s)

\* The positions of a frame's columns that are not named in names.
RECURSIVE KeptPositions(_, _, _)
KeptPositions(cols, names, c) ==
    IF c > Len(cols) THEN <<>>
    ELSE (IF cols[c] \in names THEN <<>> ELSE <<c>>)
         \o KeptPositions(cols, names, c + 1)

\* data.drop(columns=y_cols)
DropColumns(data, names) ==
    LET keep == KeptPositions(data.cols, names, 1)
    IN  Frame([i \in DOMAIN keep |-> data.cols[keep[i]]],
              [r \in DOMAIN data.rows |->
                  [i \in DOMAIN keep |-> data.rows[r][keep[i]]]])

\* data.max(axis=0)[c], data.min(axis=0)[c]: pandas skips NaN; a column with
\* no number (all missing, or no rows) gives NaN.  c counts from 0.
ColumnNumbers(data, c) ==
    {data.rows[r][c + 1].v : r \in {q \in DOMAIN data.rows : IsNum(data.rows[q][c + 1])}}
\* data.min(axis=0)[c] written where data.max(axis=0)[c] is meant.
ColumnMax_mut(data, c) ==
    LET vs == ColumnNumbers(data, c)
    IN  IF vs = {} THEN NaN ELSE Num(CHOOSE m \in vs : \A w \in vs : m <= w)
ColumnMax(data, c) ==
    LET vs == ColumnNumbers(data, c)
    IN  IF vs = {} THEN NaN ELSE Num(CHOOSE m \in vs : \A w \in vs : w <= m)
ColumnMin(data, c) ==
    LET vs == ColumnNumbers(data, c)
    IN  IF vs = {} THEN NaN ELSE Num(CHOOSE m \in vs : \A w \in vs : m <= w)

\* -------------------------------------------------------------------- state

VARIABLES
    obj,    \* bracket specification: the object whose methods are called
    call,   \* the last method call on obj and what it returned
    prev,   \* the call before it
    csv,    \* the file at the dataset's path
    ds,     \* the dataset object: class, atr, data, y_min, y_max, and how far
            \* its __init__ has run
    hist,   \* the frames __init__ passed through (for stating the claims)
    out,    \* the last __len__ / __getitem__ and what it returned
    run     \* the main run: its position, its objects, what it has logged

vars == <<obj, call, prev, csv, ds, hist, out, run>>

\* ---------------------------------------------------------------- CSV files

\* A record of the simulation: pre fields a, a+1, ..., post fields b, b+1, ...
SeedRow(a, b) ==
    [c \in 1..NumCols |->
        IF c <= NumPre THEN Whole(a + c - 1) ELSE Whole(b + c - NumPre - 1)]

\* A record whose Target and Virus cells are empty in the file.
MissingRow ==
    [c \in 1..NumCols |->
        IF Header[c] \in {"xTarget", "xVirus", "yTarget", "yVirus"} THEN NaN
        ELSE SeedRow(1, 2)[c]]

CsvRows == {SeedRow(-3, -1), SeedRow(0, 3), SeedRow(4, 5), MissingRow}

\* The files: up to MaxRows records, each line led by its index.
CsvFile(recs) ==
    Frame(<<"index">> \o Header,
          [r \in DOMAIN recs |-> <<Whole(r - 1)>> \o recs[r]])
CsvFiles == {CsvFile(recs) : recs \in UNION {[1..n -> CsvRows] : n \in 0..MaxRows}}

\* np.random.normal(0, 10000, [len(data), 12]): one sample per cell.  The
\* samples of a row are all 0, or NoiseAmp with alternating sign; the odd
\* rows draw one of the two, the even rows draw one of the two.
NoiseRow(n) == [c \in 1..NumCols |-> IF c % 2 = 1 THEN Whole(n) ELSE Whole(-n)]
NoiseMatrices(len) ==
    {[r \in 1..len |-> NoiseRow(ns[r % 2])] : ns \in [0..1 -> {0, NoiseAmp}]}

EmptyFrame == Frame(<<>>, <<>>)
NoFile == EmptyFrame
\* hist: the frame as loaded, the noise drawn and how often it was drawn,
\* the frame handed to mask (raw), the frame mask returned (clipped) and the
\* frame handed to np.log (logged).
NoHist == [loaded |-> EmptyFrame, noise |-> <<>>, noised |-> 0, raw |-> EmptyFrame,
           clipped |-> EmptyFrame, logged |-> EmptyFrame]
NoOut == [op |-> "none", idx |-> 0, x |-> <<>>, y |-> <<>>, n |-> 0]
NoDataset == [cls |-> "none", atr |-> 0, pc |-> 0, data |-> EmptyFrame,
              y_min |-> NaN, y_max |-> NaN]
NoObj == [cls |-> "none", y_min |-> NaN, y_max |-> NaN]
NoRun == [pc |-> "none"]
NoCall == [op |-> "none", y |-> NaN, res |-> 0, label |-> None, n |-> 0]

DatasetClasses == {"ODEDataset", "ODEDatasetClassifier", "ODEDatasetClassifierNoisy"}
ClassifierDatasets == {"ODEDatasetClassifier", "ODEDatasetClassifierNoisy"}

\* ------------------------------------------------------ dataset construction

\* pd.read_csv(path)
read_csv(file) == file

\* ODEDatasetClassifierNoisy.__init__ adding the noise after the clipping.
InitStatements_mut(cls) ==
    CASE cls = "ODEDataset" -> <<"load", "clip", "log">>
      [] cls = "ODEDatasetClassifier" -> <<"load", "clip", "log", "select", "range">>
      [] cls = "ODEDatasetClassifierNoisy" ->
             <<"load", "clip", "noise", "log", "select", "range">>

\* The statements of each class's __init__, in the order they are written.
InitStatements(cls) ==
    CASE cls = "ODEDataset" -> <<"load", "clip", "log">>
      [] cls = "ODEDatasetClassifier" -> <<"load", "clip", "log", "select", "range">>
      [] cls = "ODEDatasetClassifierNoisy" ->
             <<"load", "noise", "clip", "log", "select", "range">>

\* ds.pc counts the statements __init__ has executed.
AtStatement(d, name) ==
    /\ d.cls \in DatasetClasses
    /\ d.pc < Len(InitStatements(d.cls))
    /\ InitStatements(d.cls)[d.pc + 1] = name
Executed(d, name) ==
    /\ d.cls # "none"
    /\ \E i \in 1..d.pc : InitStatements(d.cls)[i] = name
Ready(d) == d.cls # "none" /\ d.pc = Len(InitStatements(d.cls))

\* One statement of __init__ executed on the object d under construction.
Statement(name, d, file, noise) ==
    LET data ==
            CASE name = "load" -> DropFirstColumn(read_csv(file))
              [] name = "noise" -> AddFrame(d.data, noise)
              [] name = "clip" -> mask(d.data)
              [] name = "log" -> LogColumns(d.data)
              [] name = "select" -> DropColumns(d.data, Range(Pop(YCols, d.atr)))
              [] name = "range" -> d.data
    IN  [d EXCEPT !.data = data,
                  !.pc = @ + 1,
                  !.y_max = IF name = "range" THEN ColumnMax(data, NumPre) ELSE @,
                  !.y_min = IF name = "range" THEN ColumnMin(data, NumPre) ELSE @]

\* data = pd.read_csv(path); data = data.drop(data.columns[0], axis=1)
Load ==
    /\ AtStatement(ds, "load")
    /\ ds' = Statement("load", ds, csv, <<>>)
    /\ hist' = [hist EXCEPT !.loaded = ds'.data]
    /\ UNCHANGED <<obj, call, prev, csv, out, run>>

\* noise = np.random.normal(0, 10000, [len(data), 12]); data = data + noise
AddNoise ==
    /\ AtStatement(ds, "noise")
    /\ \E noise \in NoiseMatrices(Len(ds.data.rows)) :
          /\ ds' = Statement("noise", ds, csv, noise)
          /\ hist' = [hist EXCEPT !.noise = noise, !.noised = @ + 1]
    /\ UNCHANGED <<obj, call, prev, csv, out, run>>

\* data = data.mask(data < 1, 1)
Clip ==
    /\ AtStatement(ds, "clip")
    /\ ds' = Statement("clip", ds, csv, <<>>)
    /\ hist' = [hist EXCEPT !.raw = ds.data, !.clipped = ds'.data]
    /\ UNCHANGED <<obj, call, prev, csv, out, run>>

\* data['xTarget'] = np.log(data['xTarget']) ... data['xCD8m'] = np.log(...)
LogTransform ==
    /\ AtStatement(ds, "log")
    /\ ds' = Statement("log", ds, csv, <<>>)
    /\ hist' = [hist EXCEPT !.logged = ds.data]
    /\ UNCHANGED <<obj, call, prev, csv, out, run>>

\* y_cols = [...]; y_cols.pop(atr); data = data.drop(columns=y_cols)
SelectLabel ==
    /\ AtStatement(ds, "select")
    /\ ds' = Statement("select", ds, csv, <<>>)
    /\ UNCHANGED <<obj, call, prev, csv, hist, out, run>>

\* self.atr = atr; self.y_max = data.max(axis=0)[6];
\* self.y_min = data.min(axis=0)[6]; self.data = data
SetRange ==
    /\ AtStatement(ds, "range")
    /\ ds' = Statement("range", ds, csv, <<>>)
    /\ UNCHANGED <<obj, call, prev, csv, hist, out, run>>

\* __init__ run to its end: the next statement is executed on the object,
\* then the rest on the object it leaves (s, bound to that one object).
RECURSIVE Construct(_, _, _)
Construct(d, file, noise) ==
    IF Ready(d) THEN d
    ELSE CHOOSE built \in
             {Construct(s, file, noise) :
                 s \in {Statement(InitStatements(d.cls)[d.pc + 1], d, file, noise)}} :
             TRUE

\* ------------------------------------------------------------ dataset reads

\* row[a:b] of a row, positions counted from 0.
Slice(row, a, b) == SubSeq(row, a + 1, b)

\* The one-hot vector of class k: zeros(4) with a 1 at position k, and
\* nn.functional.one_hot(k, num_classes=4).
OneHot(k) == [i \in 1..NumClasses |-> IF i = k + 1 THEN 1 ELSE 0]

\* torch.argmin written for torch.argmax.
ArgMaxRow_mut(y) ==
    CHOOSE i \in 0..(Len(y) - 1) :
        /\ \A j \in 0..(Len(y) - 1) : y[i + 1] <= y[j + 1]
        /\ \A j \in 0..(i - 1) : y[i + 1] < y[j + 1]

\* torch.argmax(y, dim=1) for one row y: the index, from 0, of its first
\* maximal entry.
ArgMaxRow(y) ==
    CHOOSE i \in 0..(Len(y) - 1) :
        /\ \A j \in 0..(Len(y) - 1) : y[j + 1] <= y[i + 1]
        /\ \A j \in 0..(i - 1) : y[j + 1] < y[i + 1]

\* ODEDataset.__getitem__
ODEDataset_getitem(self, idx) ==
    LET row == self.data.rows[idx + 1]
    IN  [x |-> Slice(row, 0, NumPre), y |-> Slice(row, NumPre, NumCols)]

\* ODEDatasetClassifier.__getitem__ writing the 1 without zeroing the rest.
ODEDatasetClassifier_getitem_mut(self, idx) ==
    LET row == self.data.rows[idx + 1]
        y == row[NumPre + 1]
        b == ODEDatasetClassifier_bracket(self.y_min, self.y_max, y)
    IN  [x |-> Slice(row, 0, NumPre),
         y |-> [i \in 1..NumClasses |-> IF i >= b + 1 THEN 1 ELSE 0]]

\* ODEDatasetClassifier.__getitem__: y_tensor = zeros(4); y_tensor[bracket(y)] = 1
ODEDatasetClassifier_getitem(self, idx) ==
    LET row == self.data.rows[idx + 1]
        y == row[NumPre + 1]
        b == ODEDatasetClassifier_bracket(self.y_min, self.y_max, y)
    IN  [x |-> Slice(row, 0, NumPre),
         y |-> [i \in 1..NumClasses |-> IF i = b + 1 THEN 1 ELSE 0]]

\* ODEDatasetClassifierNoisy.__getitem__
ODEDatasetClassifierNoisy_getitem(self, idx) ==
    LET row == self.data.rows[idx + 1]
        y == row[NumPre + 1]
        b == ODEDatasetClassifierNoisy_bracket(self.y_min, self.y_max, y)
    IN  [x |-> Slice(row, 0, NumPre),
         y |-> [i \in 1..NumClasses |-> IF i = b + 1 THEN 1 ELSE 0]]

getitem(self, idx) ==
    CASE self.cls = "ODEDataset" -> ODEDataset_getitem(self, idx)
      [] self.cls = "ODEDatasetClassifier" -> ODEDatasetClassifier_getitem(self, idx)
      [] self.cls = "ODEDatasetClassifierNoisy" ->
             ODEDatasetClassifierNoisy_getitem(self, idx)

\* __len__: len(self.data)
len(self) == Len(self.data.rows)

GetLen ==
    /\ Ready(ds)
    /\ out' = [NoOut EXCEPT !.op = "len", !.n = len(ds)]
    /\ UNCHANGED <<obj, call, prev, csv, ds, hist, run>>

\* __getitem__ of a class that draws its noise when a record is read,
\* not when the dataset is built.
GetItem_mut ==
    /\ Ready(ds)
    /\ \E idx \in 0..(len(ds) - 1) : \E noise \in NoiseMatrices(len(ds)) :
          LET item == getitem(ds, idx)
          IN  /\ out' = [NoOut EXCEPT
                            !.op = "getitem", !.idx = idx, !.y = item.y,
                            !.x = [c \in 1..NumPre |->
                                      Add(item.x[c], noise[idx + 1][c])]]
              /\ hist' = [hist EXCEPT !.noise = noise]
    /\ UNCHANGED <<obj, call, prev, csv, ds, run>>

\* __getitem__(idx) for the valid indices 0 .. len - 1.
GetItem ==
    /\ Ready(ds)
    /\ \E idx \in 0..(len(ds) - 1) :
          LET item == getitem(ds, idx)
          IN  out' = [NoOut EXCEPT !.op = "getitem", !.idx = idx,
                                   !.x = item.x, !.y = item.y]
    /\ UNCHANGED <<obj, call, prev, csv, ds, hist, run>>

\* The atr arguments a dataset is built with: one of the six label columns.
\* ODEDataset takes none.
AtrArgs(cls) == IF cls = "ODEDataset" THEN {0} ELSE 0..(NumPre - 1)

InitDataset ==
    /\ obj = NoObj /\ call = NoCall /\ prev = NoCall
    /\ csv \in CsvFiles
    /\ \E cls \in DatasetClasses : \E atr \in AtrArgs(cls) :
          ds = [NoDataset EXCEPT !.cls = cls, !.atr = atr]
    /\ hist = NoHist
    /\ out = NoOut
    /\ run = NoRun

NextDataset ==
    \/ Load
    \/ AddNoise
    \/ Clip
    \/ LogTransform
    \/ SelectLabel
    \/ SetRange
    \/ GetLen
    \/ GetItem

SpecDataset == InitDataset /\ [][NextDataset]_vars

\* ------------------------------------------------- bracket and translate calls

\* The (y_min, y_max) an object can hold.  A lazy classifier is handed any
\* two values, in any order; a dataset holds the extremes of a clipped
\* column: both NaN, or 1 <= y_min <= y_max.
RangeValues == {Whole(w) : w \in 0..MaxY} \cup {NaN}
Objects ==
    {[cls |-> c, y_min |-> lo, y_max |-> hi] :
        c \in {"lazy_classifier", "lazy_classifier2"},
        lo \in RangeValues, hi \in RangeValues}
    \cup
    {o \in {[cls |-> c, y_min |-> lo, y_max |-> hi] :
                c \in ClassifierDatasets, lo \in RangeValues, hi \in RangeValues} :
        \/ IsNaN(o.y_min) /\ IsNaN(o.y_max)
        \/ Le(Whole(1), o.y_min) /\ Le(o.y_min, o.y_max)}
    \cup {[NoObj EXCEPT !.cls = "ViralKineticsDNNClassifier"]}

\* The values bracket is called with: every quarter from -1 to MaxY + 1,
\* and NaN.
YValues == {Num(q) : q \in (-Unit)..((MaxY + 1) * Unit)} \cup {NaN}

\* The class indices translate is called with, and two that match no case.
Predictions == (-1)..NumClasses

\* obj.bracket(y)
CallBracket ==
    /\ obj.cls \in BracketClasses
    /\ \E y \in YValues :
          call' = [NoCall EXCEPT !.op = "bracket", !.y = y,
                                 !.res = bracket(obj.cls, obj.y_min, obj.y_max, y)]
    /\ prev' = call
    /\ UNCHANGED <<obj, csv, ds, hist, out, run>>

\* obj.translate(prediction)
CallTranslate ==
    /\ obj.cls \in TranslateClasses
    /\ \E p \in Predictions :
          call' = [NoCall EXCEPT !.op = "translate", !.res = p,
                                 !.label = translate(obj.cls, p)]
    /\ prev' = call
    /\ UNCHANGED <<obj, csv, ds, hist, out, run>>

\* The lazy classifiers' forward, from actual_value = np.exp(x[self.value])
\* on: return self.translate(self.bracket(actual_value))
CallForward ==
    /\ obj.cls \in {"lazy_classifier", "lazy_classifier2"}
    /\ \E actual_value \in YValues :
          LET b == bracket(obj.cls, obj.y_min, obj.y_max, actual_value)
          IN  call' = [NoCall EXCEPT !.op = "forward", !.y = actual_value,
                                     !.res = b, !.label = translate(obj.cls, b)]
    /\ prev' = call
    /\ UNCHANGED <<obj, csv, ds, hist, out, run>>

\* The outputs self.stack(x) can give for a batch of n records: one row of 4
\* scores per record.  The weights are whatever training left and Dropout
\* is random in training mode, so any row of a small set: the network
\* favours one of the classes (score 1 against 0), or none.
Logits ==
    {[c \in 1..NumClasses |-> IF c = favoured THEN 1 ELSE 0] :
        favoured \in 0..NumClasses}
StackOutputs(n) == [1..n -> Logits]

\* e^0 and e^1 in thousandths.
ExpOfLogit == <<1000, 2718>>

\* nn.Softmax(dim=1): each row divided by its own sum, an entry kept as the
\* fraction <<numerator, denominator>>.
Softmax(result) ==
    [r \in DOMAIN result |->
        LET e == [c \in 1..NumClasses |-> ExpOfLogit[result[r][c] + 1]]
            total == e[1] + e[2] + e[3] + e[4]
        IN  [c \in 1..NumClasses |-> <<e[c], total>>]]

\* The entries of a batch of rows in row-major order, as argmax without a
\* dim sees them.
Flatten(y) ==
    [i \in 1..(Len(y) * NumClasses) |->
        y[((i - 1) \div NumClasses) + 1][((i - 1) % NumClasses) + 1]]

\* tensor.argmax() of a sequence of fractions: the index, from 0, of the
\* first maximal entry.
ArgMax(s) ==
    CHOOSE i \in 0..(Len(s) - 1) :
        /\ \A j \in 0..(Len(s) - 1) :
              s[i + 1][1] * s[j + 1][2] >= s[j + 1][1] * s[i + 1][2]
        /\ \A j \in 0..(i - 1) :
              s[i + 1][1] * s[j + 1][2] > s[j + 1][1] * s[i + 1][2]

\* ViralKineticsDNNClassifier.forward on the scores of the stack:
\* y = self.softmax(self.stack(x)); prediction = y.argmax()
ViralKineticsDNNClassifier_forward(result) ==
    LET y == Softmax(result)
        prediction == ArgMax(Flatten(y))
    IN  [prediction |-> prediction,
         label |-> ViralKineticsDNNClassifier_translate(prediction)]

\* model(x) for a batch x of n records of 6 features.
CallDNNForward ==
    /\ obj.cls = "ViralKineticsDNNClassifier"
    /\ \E n \in 1..MaxBatch : \E result \in StackOutputs(n) :
          LET f == ViralKineticsDNNClassifier_forward(result)
          IN  call' = [NoCall EXCEPT !.op = "forward", !.n = n,
                                     !.res = f.prediction, !.label = f.label]
    /\ prev' = call
    /\ UNCHANGED <<obj, csv, ds, hist, out, run>>

InitBracket ==
    /\ obj \in Objects
    /\ call = NoCall /\ prev = NoCall
    /\ csv = NoFile /\ ds = NoDataset /\ hist = NoHist /\ out = NoOut
    /\ run = NoRun

NextBracket ==
    \/ CallBracket
    \/ CallTranslate
    \/ CallForward
    \/ CallDNNForward

SpecBracket == InitBracket /\ [][NextBracket]_vars

\* ------------------------------------------------------------- the main run

\* BATCH_SIZE, the fractions of random_split in percent, and the atr the
\* script passes to both datasets.
BATCH_SIZE == 2048
TrainPercent == 85
TestPercent == 15
MainAtr == 3

\* The file at "data/viral_kinetics_none_2_0_12.csv": MainRows records, all
\* cells present, or one record with empty cells among them.  The virus
\* load after two days spans 2 .. 6 over the records; the load before is 0,
\* 3 (the lower quarter point of that range) and 7.
MainRecords(missing) ==
    [r \in 1..MainRows |->
        IF missing /\ r = 2 THEN MissingRow
        ELSE <<SeedRow(-3, -1), SeedRow(0, 3), SeedRow(4, 1)>>[(r % 3) + 1]]
MainFiles == {CsvFile(MainRecords(missing)) : missing \in BOOLEAN}

\* The atr the datasets are built with: the script's 3, and 6, one past the
\* last label column, for the script edited to select a seventh variable.
MainAtrs == {MainAtr, NumPre}

\* What __init__ of a classifier dataset raises: read_csv on a path that
\* does not exist, y_cols.pop(atr) on an atr out of range.
ConstructRaises(file_exists, atr) == ~file_exists \/ PopRaises(YCols, atr)

\* random_split(dataset, [.85, .15]): the lengths are the floors of the
\* fractions of len(dataset), the remainder handed out one by one from the
\* first; the members are drawn by a random permutation.
SplitLengths(n) ==
    LET a == (TrainPercent * n) \div 100
        b == (TestPercent * n) \div 100
        rest == n - a - b
    IN  <<a + (rest + 1) \div 2, b + rest \div 2>>
Splits(n) ==
    {[training |-> (0..(n - 1)) \ t, testing |-> t] :
        t \in {q \in SUBSET (0..(n - 1)) : Cardinality(q) = SplitLengths(n)[2]}}

\* The batches a DataLoader yields over a subset of size n.
NumBatches(n) == (n + BATCH_SIZE - 1) \div BATCH_SIZE

\* The loggers of the two trainers.
LazyLogger == "2 Days, only V as Classifier, Lazy 85% data"
FitLogger == "2 Days, only V as Classifier, Noisey Trained 85% data"

\* The loaders of the run: the two handed to trainer.test and, as validation
\* loaders, to trainer.fit, in the order of the list, and the one trained on.
EvalLoaders == <<"testing_loader", "noisy_testing_loader">>
TrainLoader == "noisy_training_loader"

\* The metric names with the loader index left out of them.
StepMetrics_mut(logger, dataloader_idx) ==
    {<<logger, "testing_loss loader: ", 0>>,
     <<logger, "accuracy loader: ", 0>>}

\* self.log("testing_loss loader: " + str(dataloader_idx), loss) and
\* self.log("accuracy loader: " + str(dataloader_idx), accuracy)
StepMetrics(logger, dataloader_idx) ==
    {<<logger, "testing_loss loader: ", dataloader_idx>>,
     <<logger, "accuracy loader: ", dataloader_idx>>}

\* An exception caught and the run carried on (what a try/except around a
\* stage would do).
Raise_mut(r, stage) == [r EXCEPT !.failed = stage]

\* An exception raised in a stage: nothing in the script catches it, the
\* interpreter leaves the script.
Raise(r, stage) == [r EXCEPT !.pc = "error", !.failed = stage]

\* The sizes of the two loaders handed to trainer.test and, as validation
\* loaders, to trainer.fit: [testing_loader, noisy_testing_loader].
EvalLoaderSizes(r) ==
    <<NumBatches(Cardinality(r.split.testing)),
      NumBatches(Cardinality(r.noisy_split.testing))>>

\* The first batch at or after (loader, batch) in a list of loaders; loader
\* is past the list when there is none.
RECURSIVE Position(_, _, _)
Position(sizes, loader, batch) ==
    IF loader >= Len(sizes) THEN [loader |-> loader, batch |-> 0]
    ELSE IF batch < sizes[loader + 1] THEN [loader |-> loader, batch |-> batch]
    ELSE Position(sizes, loader + 1, 0)

\* The dataset and the members of the partition behind an evaluation
\* loader: 0 is testing_loader, 1 is noisy_testing_loader.
EvalDataset(r, loader) == IF loader = 0 THEN r.dataset ELSE r.noisy_dataset
EvalSubset(r, loader) == IF loader = 0 THEN r.split.testing ELSE r.noisy_split.testing

\* A batch of a loader over the members subset of dataset d: what
\* __getitem__ returns for each.  No partition of the run has more than
\* BATCH_SIZE members, so a loader's one batch holds its whole partition.
Batch(d, subset) == [idx \in subset |-> getitem(d, idx)]

\* What a step leaves behind for its logger.
NoStep == [op |-> "none", dataloader_idx |-> 0, prediction |-> <<>>,
           one_hots |-> <<>>, target |-> <<>>, correct |-> 0]

\* lazy_classifier.test_step reading the feature one column to the right
\* (actual_value[:, self.value + 1]).
lazy_classifier_test_step_mut(self, batch, dataloader_idx) ==
    LET prediction ==
            [i \in DOMAIN batch |->
                lazy_classifier_bracket(self.y_min, self.y_max,
                                        Exp(batch[i].x[self.value + 2]))]
        target == [i \in DOMAIN batch |-> ArgMaxRow(batch[i].y)]
    IN  [op |-> "test_step", dataloader_idx |-> dataloader_idx,
         prediction |-> prediction,
         one_hots |-> [i \in DOMAIN batch |-> OneHot(prediction[i])],
         target |-> target,
         correct |-> Cardinality({i \in DOMAIN batch : prediction[i] = target[i]})]

\* lazy_classifier.test_step: actual_value = np.exp(x); prediction =
\* actual_value[:, self.value].apply_(self.bracket); one_hots =
\* one_hot(prediction, 4); accuracy(prediction, argmax(y, dim=1))
lazy_classifier_test_step(self, batch, dataloader_idx) ==
    LET prediction ==
            [i \in DOMAIN batch |->
                lazy_classifier_bracket(self.y_min, self.y_max,
                                        Exp(batch[i].x[self.value + 1]))]
        target == [i \in DOMAIN batch |-> ArgMaxRow(batch[i].y)]
    IN  [op |-> "test_step", dataloader_idx |-> dataloader_idx,
         prediction |-> prediction,
         one_hots |-> [i \in DOMAIN batch |-> OneHot(prediction[i])],
         target |-> target,
         correct |-> Cardinality({i \in DOMAIN batch : prediction[i] = target[i]})]

\* ViralKineticsDNNClassifier.validation_step: prediction =
\* argmax(result, dim=1), one class per record, whatever the weights give;
\* accuracy(prediction, argmax(y, dim=1))
ViralKineticsDNNClassifier_validation_step(prediction, batch, dataloader_idx) ==
    LET target == [i \in DOMAIN batch |-> ArgMaxRow(batch[i].y)]
    IN  [op |-> "validation_step", dataloader_idx |-> dataloader_idx,
         prediction |-> prediction,
         one_hots |-> <<>>,
         target |-> target,
         correct |-> Cardinality({i \in DOMAIN batch : prediction[i] = target[i]})]

StartRun ==
    [pc |-> "dataset", file_exists |-> TRUE, atr |-> MainAtr,
     dataset |-> NoDataset, noisy_dataset |-> NoDataset,
     split |-> [training |-> {}, testing |-> {}],
     noisy_split |-> [training |-> {}, testing |-> {}],
     lazy_model |-> [cls |-> "none", value |-> 0, y_max |-> NaN, y_min |-> NaN],
     phase |-> "none", loader |-> 0, batch |-> 0, epoch |-> 0, steps |-> 0,
     logged |-> {}, started |-> <<>>, failed |-> "none",
     noise |-> <<>>, last |-> NoStep,
     written |-> {}, visits |-> {}, revisited |-> FALSE]

\* dataset = ODEDatasetClassifier("data/viral_kinetics_none_2_0_12.csv", 3)
MainDataset ==
    /\ run.pc = "dataset"
    /\ LET r == [run EXCEPT !.started = Append(@, "dataset")]
       IN  run' = IF ConstructRaises(r.file_exists, r.atr) THEN Raise(r, "dataset")
                  ELSE [r EXCEPT !.pc = "noisy_dataset",
                                 !.dataset =
                                     Construct([NoDataset EXCEPT
                                                   !.cls = "ODEDatasetClassifier",
                                                   !.atr = r.atr], csv, <<>>)]
    /\ UNCHANGED <<obj, call, prev, csv, ds, hist, out>>

\* noisy_dataset = ODEDatasetClassifierNoisy("data/...csv", 3)
MainNoisyDataset ==
    /\ run.pc = "noisy_dataset"
    /\ \E noise \in NoiseMatrices(Len(csv.rows)) :
          LET r == [run EXCEPT !.started = Append(@, "noisy_dataset")]
          IN  run' = IF ConstructRaises(r.file_exists, r.atr)
                     THEN Raise(r, "noisy_dataset")
                     ELSE [r EXCEPT !.pc = "split",
                                    !.noise = noise,
                                    !.noisy_dataset =
                                        Construct([NoDataset EXCEPT
                                                      !.cls = "ODEDatasetClassifierNoisy",
                                                      !.atr = r.atr], csv, noise)]
    /\ UNCHANGED <<obj, call, prev, csv, ds, hist, out>>

\* training_dataset, testing_dataset = random_split(dataset, [.85, .15])
\* noisy_training_dataset, noisy_testing_dataset = random_split(noisy_dataset, ...)
MainSplit ==
    /\ run.pc = "split"
    /\ \E s \in Splits(len(run.dataset)) : \E ns \in Splits(len(run.noisy_dataset)) :
          run' = [run EXCEPT !.pc = "setup", !.split = s, !.noisy_split = ns,
                             !.started = Append(@, "split")]
    /\ UNCHANGED <<obj, call, prev, csv, ds, hist, out>>

\* lazy_model = lazy_classifier(dataset.atr, dataset.y_max, dataset.y_min);
\* model, the four loaders and the first trainer
MainSetup ==
    /\ run.pc = "setup"
    /\ run' = [run EXCEPT
                  !.pc = "test",
                  !.lazy_model = [cls |-> "lazy_classifier",
                                  value |-> run.dataset.atr,
                                  y_max |-> run.dataset.y_max,
                                  y_min |-> run.dataset.y_min],
                  !.started = Append(@, "setup")]
    /\ UNCHANGED <<obj, call, prev, csv, ds, hist, out>>

\* trainer.test(model=lazy_model, dataloaders=[testing_loader,
\* noisy_testing_loader]) entered: the loop starts at the first batch.
MainTest ==
    /\ run.pc = "test" /\ run.phase = "none"
    /\ LET at == Position(EvalLoaderSizes(run), 0, 0)
       IN  run' = [run EXCEPT !.phase = "test", !.loader = at.loader,
                              !.batch = at.batch, !.started = Append(@, "test")]
    /\ UNCHANGED <<obj, call, prev, csv, ds, hist, out>>

\* lazy_classifier.test_step on the batch at (loader, batch): it logs the
\* loss and the accuracy under the loader's names, or raises.  written
\* keeps, for every name logged, the loader whose batch the value came from;
\* visits keeps the batches the steps were called on, revisited whether one
\* was called on twice.
TestStep ==
    /\ run.pc = "test" /\ run.phase = "test"
    /\ run.loader < Len(EvalLoaderSizes(run))
    /\ \E raises \in BOOLEAN :
      \E batch \in {Batch(EvalDataset(run, run.loader), EvalSubset(run, run.loader))} :
          LET at == Position(EvalLoaderSizes(run), run.loader, run.batch + 1)
          IN  run' = IF raises THEN Raise(run, "test")
                     ELSE [run EXCEPT
                              !.last = lazy_classifier_test_step(
                                           run.lazy_model, batch, run.loader),
                              !.logged = @ \cup StepMetrics(LazyLogger, run.loader),
                              !.written = @ \cup
                                  {<<name, EvalLoaders[run.loader + 1]>> :
                                      name \in StepMetrics(LazyLogger, run.loader)},
                              !.visits = @ \cup
                                  {<<"test_step", run.epoch, run.loader, run.batch>>},
                              !.revisited = @ \/
                                  <<"test_step", run.epoch, run.loader, run.batch>>
                                      \in run.visits,
                              !.loader = at.loader, !.batch = at.batch]
    /\ UNCHANGED <<obj, call, prev, csv, ds, hist, out>>

\* trainer.test returns; the second trainer is made and trainer.fit(model,
\* noisy_training_loader, [testing_loader, noisy_testing_loader]) entered.
MainFit ==
    /\ run.pc = "test" /\ run.phase = "test"
    /\ run.loader >= Len(EvalLoaderSizes(run))
    /\ run' = [run EXCEPT !.pc = "fit", !.phase = "train", !.epoch = 0,
                          !.loader = 0, !.batch = 0,
                          !.started = Append(@, "fit")]
    /\ UNCHANGED <<obj, call, prev, csv, ds, hist, out>>

\* ViralKineticsDNNClassifier.training_step on a batch of the noisy training
\* loader, followed by the optimizer step; after the last batch of the epoch
\* the validation loop starts.
TrainingStep ==
    /\ run.pc = "fit" /\ run.phase = "train"
    /\ run.batch < NumBatches(Cardinality(run.noisy_split.training))
    /\ \E raises \in BOOLEAN :
          LET last == run.batch + 1 >= NumBatches(Cardinality(run.noisy_split.training))
              at == Position(EvalLoaderSizes(run), 0, 0)
          IN  run' = IF raises THEN Raise(run, "fit")
                     ELSE [run EXCEPT
                              !.logged = @ \cup {<<FitLogger, "training_loss", 0>>},
                              !.written = @ \cup
                                  {<<<<FitLogger, "training_loss", 0>>, TrainLoader>>},
                              !.visits = @ \cup
                                  {<<"training_step", run.epoch, 0, run.batch>>},
                              !.revisited = @ \/
                                  <<"training_step", run.epoch, 0, run.batch>>
                                      \in run.visits,
                              !.steps = @ + 1,
                              !.last = [NoStep EXCEPT !.op = "training_step"],
                              !.phase = IF last THEN "validate" ELSE "train",
                              !.loader = IF last THEN at.loader ELSE 0,
                              !.batch = IF last THEN at.batch ELSE run.batch + 1]
    /\ UNCHANGED <<obj, call, prev, csv, ds, hist, out>>

\* ViralKineticsDNNClassifier.validation_step on the batch at (loader,
\* batch) of the two validation loaders.
ValidationStep ==
    /\ run.pc = "fit" /\ run.phase = "validate"
    /\ run.loader < Len(EvalLoaderSizes(run))
    /\ \E raises \in BOOLEAN :
      \E batch \in {Batch(EvalDataset(run, run.loader), EvalSubset(run, run.loader))} :
      \E prediction \in [DOMAIN batch -> 0..(NumClasses - 1)] :
          LET at == Position(EvalLoaderSizes(run), run.loader, run.batch + 1)
          IN  run' = IF raises THEN Raise(run, "fit")
                     ELSE [run EXCEPT
                              !.last = ViralKineticsDNNClassifier_validation_step(
                                           prediction, batch, run.loader),
                              !.logged = @ \cup StepMetrics(FitLogger, run.loader),
                              !.written = @ \cup
                                  {<<name, EvalLoaders[run.loader + 1]>> :
                                      name \in StepMetrics(FitLogger, run.loader)},
                              !.visits = @ \cup
                                  {<<"validation_step", run.epoch, run.loader, run.batch>>},
                              !.revisited = @ \/
                                  <<"validation_step", run.epoch, run.loader, run.batch>>
                                      \in run.visits,
                              !.loader = at.loader, !.batch = at.batch]
    /\ UNCHANGED <<obj, call, prev, csv, ds, hist, out>>

\* A trainer without an epoch limit (max_epochs=-1): the end of an epoch is
\* always followed by another pass over the training loader.
EpochEnd_mut ==
    /\ run.pc = "fit" /\ run.phase = "validate"
    /\ run.loader >= Len(EvalLoaderSizes(run))
    /\ run' = [run EXCEPT !.phase = "train", !.loader = 0, !.batch = 0]
    /\ UNCHANGED <<obj, call, prev, csv, ds, hist, out>>

\* The end of an epoch: the next one, or trainer.fit returns after
\* max_epochs and the script ends.
EpochEnd ==
    /\ run.pc = "fit" /\ run.phase = "validate"
    /\ run.loader >= Len(EvalLoaderSizes(run))
    /\ run' = IF run.epoch + 1 >= EpochCap
              THEN [run EXCEPT !.pc = "done", !.phase = "none", !.epoch = @ + 1]
              ELSE [run EXCEPT !.phase = "train", !.epoch = @ + 1,
                               !.loader = 0, !.batch = 0]
    /\ UNCHANGED <<obj, call, prev, csv, ds, hist, out>>

InitMain ==
    /\ obj = NoObj /\ call = NoCall /\ prev = NoCall
    /\ ds = NoDataset /\ hist = NoHist /\ out = NoOut
    /\ \E file_exists \in BOOLEAN : \E atr \in MainAtrs :
          /\ run = [StartRun EXCEPT !.file_exists = file_exists, !.atr = atr]
          /\ csv \in (IF file_exists THEN MainFiles ELSE {NoFile})

NextMain ==
    \/ MainDataset
    \/ MainNoisyDataset
    \/ MainSplit
    \/ MainSetup
    \/ MainTest
    \/ TestStep
    \/ MainFit
    \/ TrainingStep
    \/ ValidationStep
    \/ EpochEnd

SpecMain == InitMain /\ [][NextMain]_vars

\* The interpreter and the trainers run on: whenever a statement or a step
\* of the run is due, one is eventually executed.
SpecMainFair == SpecMain /\ WF_vars(NextMain)

\* lazy_classifier.training_step leaving a trace on the object: its upper
\* threshold moved.
lazy_classifier_training_step_mut(r) ==
    [r EXCEPT !.lazy_model.y_max = Add(@, Whole(1))]

\* lazy_classifier.training_step(batch, batch_idx): pass
lazy_classifier_training_step(r) == r

\* A call of lazy_model.training_step.  No trainer of the script fits the
\* lazy model; the class defines the method, and a trainer handed the
\* model calls it once per training batch.
LazyTrainingStep ==
    /\ run.pc \in {"test", "fit"}
    /\ run' = lazy_classifier_training_step(run)
    /\ UNCHANGED <<obj, call, prev, csv, ds, hist, out>>

\* The main run, with training steps of the lazy model among its steps.
NextSteps ==
    \/ NextMain
    \/ LazyTrainingStep

SpecSteps == InitMain /\ [][NextSteps]_vars

\* =============================================================== properties

\* The stored value of the selected post variable in row idx (from 0).
LabelValue(d, idx) == d.data.rows[idx + 1][NumPre + 1]

\* C1: bracket(y) is one of 0, 1, 2, 3 for every y and every (y_min, y_max)
\* the object holds, in each of the four classes that define bracket, the
\* ranges with y_min = y_max and y_min > y_max included.
C1_BracketInRange ==
    (call.op \in {"bracket", "forward"} /\ obj.cls \in BracketClasses) =>
        call.res \in 0..3

\* A lazy classifier built with y_min > y_max answered 3.
C1_Witness ==
    /\ call.op = "bracket"
    /\ obj.cls = "lazy_classifier"
    /\ Gt(obj.y_min, obj.y_max)
    /\ call.res = 3

\* C2: bracket is monotonic non-decreasing in y: of two calls on one object
\* with y1 <= y2, the first does not return more than the second (in
\* either order of calling).
C2_BracketMonotonic ==
    (prev.op = "bracket" /\ call.op = "bracket") =>
        /\ Le(prev.y, call.y) => prev.res <= call.res
        /\ Le(call.y, prev.y) => call.res <= prev.res

\* Two calls on a lazy_classifier2 with y1 < y2 returned 2 and then 3.
C2_Witness ==
    /\ obj.cls = "lazy_classifier2"
    /\ prev.op = "bracket" /\ call.op = "bracket"
    /\ Lt(prev.y, call.y)
    /\ prev.res = 2 /\ call.res = 3

\* C3: with r = y_max - y_min >= 0, bracket(y) is the number of the three
\* quarter points y_min + r/4, y_min + r/2, y_min + 3r/4 that are strictly
\* less than y.
C3_BracketQuartiles ==
    (/\ call.op = "bracket"
     /\ IsNum(obj.y_min) /\ IsNum(obj.y_max)
     /\ obj.y_max.v - obj.y_min.v >= 0) =>
        LET r == obj.y_max.v - obj.y_min.v
            quarters == <<obj.y_min.v + r \div 4,
                          obj.y_min.v + r \div 2,
                          obj.y_min.v + (3 * r) \div 4>>
        IN  call.res = Cardinality({i \in 1..3 : Lt(Num(quarters[i]), call.y)})

\* A dataset with y_max > y_min put a value between the midpoint and the
\* upper quarter point into bracket 2.
C3_Witness ==
    /\ call.op = "bracket"
    /\ obj.cls = "ODEDatasetClassifier"
    /\ Lt(obj.y_min, obj.y_max)
    /\ call.res = 2

\* C4: for every valid idx of ODEDatasetClassifier and
\* ODEDatasetClassifierNoisy, __getitem__(idx) returns a label of length 4
\* with exactly one 1 and three 0, the 1 at position bracket(v) for the
\* stored label value v of row idx.
C4_OneHotLabel ==
    (out.op = "getitem" /\ ds.cls \in ClassifierDatasets) =>
        LET b == bracket(ds.cls, ds.y_min, ds.y_max, LabelValue(ds, out.idx))
        IN  /\ Len(out.y) = NumClasses
            /\ Cardinality({i \in 1..NumClasses : out.y[i] = 1}) = 1
            /\ Cardinality({i \in 1..NumClasses : out.y[i] = 0}) = NumClasses - 1
            /\ out.y[b + 1] = 1

\* A clean dataset returned the label of bracket 1, a record strictly
\* inside the range.
C4_Witness ==
    /\ out.op = "getitem"
    /\ ds.cls = "ODEDatasetClassifier"
    /\ out.y = <<0, 1, 0, 0>>

\* C5: in all three dataset classes the clipping replaces every one of the
\* 12 fields that is below 1 by 1 and keeps a field of 1 or more, so that
\* after the clipping no field of any record is below 1.
C5_Clipped ==
    Executed(ds, "clip") =>
        /\ DOMAIN hist.clipped.rows = DOMAIN hist.raw.rows
        /\ \A r \in DOMAIN hist.raw.rows :
              /\ DOMAIN hist.clipped.rows[r] = 1..NumCols
              /\ \A c \in 1..NumCols :
                    LET before == hist.raw.rows[r][c]
                        after == hist.clipped.rows[r][c]
                    IN  /\ Lt(before, Whole(1)) => after = Whole(1)
                        /\ Le(Whole(1), before) => after = before
                        /\ ~Lt(after, Whole(1))
        /\ ~Executed(ds, "log") => ds.data = hist.clipped

\* An ODEDataset has just clipped a file with a negative field and a field
\* above 1.
C5_Witness ==
    /\ ds.cls = "ODEDataset"
    /\ Executed(ds, "clip") /\ ~Executed(ds, "log")
    /\ \E r \in DOMAIN hist.raw.rows : \E c, e \in 1..NumCols :
          /\ Lt(hist.raw.rows[r][c], Whole(0))
          /\ ds.data.rows[r][c] = Whole(1)
          /\ Gt(hist.raw.rows[r][e], Whole(1))
          /\ ds.data.rows[r][e] = hist.raw.rows[r][e]

\* Whether a stored cell is below 1.0: an x column holds a logarithm, in
\* hundredths; a y column holds a value in quarter units.
StoredBelowOne(d, r, c) ==
    LET a == d.data.rows[r][c]
    IN  IF d.data.cols[c] \in Range(XCols) THEN IsNum(a) /\ a.v < LogScale
        ELSE Lt(a, Whole(1))

\* C6 as claimed: the logarithm is taken of the clipped frame, of its 6 pre
\* fields only; every value handed to it is finite and at least 1, so every
\* stored pre feature is finite and non-negative, for every input record,
\* those with zero, negative or missing raw values included; the post fields
\* are stored as clipped.
C6_LogInputsFinite ==
    Executed(ds, "log") =>
        /\ hist.logged = hist.clipped
        /\ \A r \in DOMAIN hist.logged.rows :
              /\ \A c \in 1..NumPre :
                    /\ IsNum(hist.logged.rows[r][c])
                    /\ Le(Whole(1), hist.logged.rows[r][c])
                    /\ IsNum(ds.data.rows[r][c])
                    /\ ds.data.rows[r][c].v >= 0
              /\ \A c \in (NumPre + 1)..Len(ds.data.rows[r]) :
                    \E e \in (NumPre + 1)..NumCols :
                        /\ hist.clipped.cols[e] = ds.data.cols[c]
                        /\ ds.data.rows[r][c] = hist.clipped.rows[r][e]

\* The facts of C7 that rest on the order of the statements of
\* ODEDatasetClassifierNoisy.__init__: the noise is drawn once, for all 12
\* fields of every record, and added to the loaded frame; that sum is what
\* is clipped, the clipped frame is what the logarithm is taken of, and
\* y_min and y_max are the extremes of the clipped label column.
NoisyOrder ==
    /\ hist.noised <= 1
    /\ Executed(ds, "noise") =>
          /\ DOMAIN hist.noise = DOMAIN hist.loaded.rows
          /\ \A r \in DOMAIN hist.noise : DOMAIN hist.noise[r] = 1..NumCols
    /\ Executed(ds, "clip") =>
          /\ Executed(ds, "noise")
          /\ DOMAIN hist.raw.rows = DOMAIN hist.loaded.rows
          /\ \A r \in DOMAIN hist.raw.rows : \A c \in 1..NumCols :
                /\ hist.raw.rows[r][c] = Add(hist.loaded.rows[r][c], hist.noise[r][c])
                /\ ~Lt(hist.clipped.rows[r][c], Whole(1))
    /\ Executed(ds, "log") => hist.logged = hist.clipped
    /\ Ready(ds) =>
          LET column == {hist.clipped.rows[r][NumPre + ds.atr + 1] :
                            r \in DOMAIN hist.clipped.rows}
              numbers == {a \in column : IsNum(a)}
          IN  /\ \A r \in DOMAIN ds.data.rows :
                    LabelValue(ds, r - 1) = hist.clipped.rows[r][NumPre + ds.atr + 1]
              /\ IF numbers = {} THEN IsNaN(ds.y_min) /\ IsNaN(ds.y_max)
                 ELSE /\ ds.y_min \in numbers /\ ds.y_max \in numbers
                      /\ \A a \in numbers : Le(ds.y_min, a) /\ Le(a, ds.y_max)

\* C7 as claimed: the steps of the noisy class run in the order load, noise,
\* clip, log, select, range, so that no stored field is below 1, also for
\* records whose noise made the raw value negative.
C7_NoStoredFieldBelowOne ==
    ds.cls = "ODEDatasetClassifierNoisy" =>
        /\ NoisyOrder
        /\ Ready(ds) =>
              \A r \in DOMAIN ds.data.rows : \A c \in DOMAIN ds.data.rows[r] :
                  ~StoredBelowOne(ds, r, c)

\* C7, amended: the steps of the noisy class run in the order load, noise,
\* clip, log, select, range, so that no field is below 1 after the clipping,
\* also where the noise made the raw value negative; of the stored fields
\* the label is not below 1 and a pre field, being the logarithm of a
\* clipped value, is not below 0.
C7_NoisyClippedThenLogged ==
    ds.cls = "ODEDatasetClassifierNoisy" =>
        /\ NoisyOrder
        /\ Ready(ds) =>
              \A r \in DOMAIN ds.data.rows :
                  /\ ~StoredBelowOne(ds, r, NumPre + 1)
                  /\ \A c \in 1..NumPre :
                        /\ ds.data.rows[r][c] = Log(hist.clipped.rows[r][c])
                        /\ ~Lt(ds.data.rows[r][c], Num(0))

\* A noisy dataset is built in which the noise turned a field of 1 or more
\* negative; the field was clipped to 1.
C7_Witness ==
    /\ ds.cls = "ODEDatasetClassifierNoisy"
    /\ Ready(ds)
    /\ \E r \in DOMAIN hist.raw.rows : \E c \in 1..NumCols :
          /\ Le(Whole(1), hist.loaded.rows[r][c])
          /\ Lt(hist.raw.rows[r][c], Whole(0))
          /\ hist.clipped.rows[r][c] = Whole(1)

\* C8 as claimed: for every atr in 0..5 a classifier dataset keeps 7
\* columns, the 6 pre fields and then the atr-th post field; y_min and y_max
\* are the least and the greatest clipped value of that field over all
\* records, so y_min <= stored label value <= y_max for every record.
C8_SelectedColumn ==
    (ds.cls \in ClassifierDatasets /\ Ready(ds)) =>
        /\ ds.data.cols = XCols \o <<YCols[ds.atr + 1]>>
        /\ \A r \in DOMAIN ds.data.rows :
              /\ Len(ds.data.rows[r]) = NumPre + 1
              /\ LabelValue(ds, r - 1) = hist.clipped.rows[r][NumPre + ds.atr + 1]
              /\ Le(ds.y_min, LabelValue(ds, r - 1))
              /\ Le(LabelValue(ds, r - 1), ds.y_max)
        /\ ds.data.rows # <<>> =>
              /\ \E r \in DOMAIN ds.data.rows : ds.y_min = LabelValue(ds, r - 1)
              /\ \E r \in DOMAIN ds.data.rows : ds.y_max = LabelValue(ds, r - 1)

\* The four ordinal labels, lowest first.
OrdinalLabels == <<"Low", "Medium-Low", "Medium-High", "High">>

\* C9 as claimed: in every model class translate maps the bracket indices
\* 0, 1, 2, 3 to Low, Medium-Low, Medium-High, High, so bracket followed by
\* translate gives the ordinal label of the bracket.
C9_TranslateOrdinal ==
    (call.op \in {"translate", "forward"} /\ call.res \in 0..3) =>
        call.label = OrdinalLabels[call.res + 1]

\* The stages of the main run, in the order the script reaches them.
Stages == <<"dataset", "noisy_dataset", "split", "setup", "test", "fit">>

\* C10: the run has no retry, recovery or partial-failure handling: once a
\* stage has failed the run is in the error state, the stages entered are
\* exactly those up to the failed one, each entered once, and from the error
\* state nothing is executed any more.
C10_NoRecovery ==
    /\ [](run.failed # "none" =>
            /\ run.pc = "error"
            /\ \E k \in DOMAIN Stages :
                  /\ Stages[k] = run.failed
                  /\ run.started = SubSeq(Stages, 1, k))
    /\ [](run.pc = "error" => run.failed # "none")
    /\ [][run.pc = "error" => run' = run]_vars

\* A training or validation step failed in the second epoch, after the
\* lazy evaluation and a whole epoch had been run.
C10_Witness ==
    /\ run.pc = "error"
    /\ run.failed = "fit"
    /\ run.epoch = 1
    /\ run.steps >= 1

\* C11: training mutates only the trained network's own weights.  Over any
\* sequence of training, validation and test steps the records, y_min,
\* y_max and atr of both datasets and the value, y_min and y_max of the
\* lazy classifier stay as built; the weights (counted by the optimizer
\* steps taken) change in a training step of the network only; and the
\* lazy classifier's training_step changes no state at all.
C11_StepsFrame ==
    /\ [][run.pc \in {"test", "fit"} =>
            /\ run'.dataset = run.dataset
            /\ run'.noisy_dataset = run.noisy_dataset
            /\ run'.split = run.split
            /\ run'.noisy_split = run.noisy_split
            /\ run'.lazy_model = run.lazy_model
            /\ run'.steps # run.steps => run.pc = "fit" /\ run.phase = "train"]_vars
    /\ [](run.pc \in {"test", "fit"} => lazy_classifier_training_step(run) = run)

\* The lazy evaluation, a training step and a whole validation pass have
\* been run over datasets that hold records.
C11_Witness ==
    /\ run.pc = "fit" /\ run.phase = "validate"
    /\ run.steps >= 1
    /\ run.loader >= Len(EvalLoaderSizes(run))
    /\ len(run.dataset) > 0 /\ len(run.noisy_dataset) > 0
    /\ run.lazy_model.value = run.dataset.atr
    /\ StepMetrics(LazyLogger, 1) \subseteq run.logged
    /\ StepMetrics(FitLogger, 1) \subseteq run.logged

\* C12 as claimed: ViralKineticsDNNClassifier.forward returns one of the
\* four labels Low, Medium-Low, Medium-High, High for every batch of one or
\* more records of 6 features; it never returns None.
C12_ForwardReturnsLabel ==
    (call.op = "forward" /\ obj.cls = "ViralKineticsDNNClassifier" /\ call.n >= 1) =>
        /\ call.label # None
        /\ call.label \in Range(OrdinalLabels)

\* C13 as claimed: in the main run every validation record is held out from
\* training: no row of the source file that is in the noisy training
\* partition is also in the clean testing or the noisy testing partition.
C13_ValidationHeldOut ==
    run.pc = "fit" =>
        run.noisy_split.training \cap (run.split.testing \cup run.noisy_split.testing) = {}

\* C14: the four bracket definitions (lazy_classifier, lazy_classifier2,
\* ODEDatasetClassifier, ODEDatasetClassifierNoisy) are the same
\* deterministic function: for every y and every (y_min, y_max) all four
\* return the index the called one returned, and two calls on one object
\* with the same y return the same index.
C14_SameBracket ==
    call.op = "bracket" =>
        /\ \A c \in BracketClasses :
              bracket(c, obj.y_min, obj.y_max, call.y) = call.res
        /\ (prev.op = "bracket" /\ prev.y = call.y) => prev.res = call.res

\* A noisy dataset was asked twice for the bracket of the midpoint of its
\* range and answered 1 both times.
C14_Witness ==
    /\ obj.cls = "ODEDatasetClassifierNoisy"
    /\ Lt(obj.y_min, obj.y_max)
    /\ prev.op = "bracket" /\ call.op = "bracket"
    /\ prev.y = call.y
    /\ call.y = Half(Add(obj.y_min, obj.y_max))
    /\ call.res = 1 /\ prev.res = 1

\* C15: the ends of the observed range get the extreme brackets.  In a
\* classifier dataset whose greatest label value is above its least, the
\* record holding the least is labelled 0 and the record holding the
\* greatest is labelled 3, and a record whose value is exactly a threshold
\* (the lower quarter point, the midpoint, the upper quarter point) gets the
\* bracket below it; when the greatest equals the least every record is
\* labelled 0.
C15_ExtremeBrackets ==
    (out.op = "getitem" /\ ds.cls \in ClassifierDatasets
        /\ IsNum(LabelValue(ds, out.idx))) =>
        LET v == LabelValue(ds, out.idx)
            numbers == {LabelValue(ds, i).v :
                           i \in {j \in 0..(len(ds) - 1) : IsNum(LabelValue(ds, j))}}
            lo == CHOOSE a \in numbers : \A b \in numbers : a <= b
            hi == CHOOSE a \in numbers : \A b \in numbers : b <= a
            r == hi - lo
        IN  /\ ds.y_min = Num(lo) /\ ds.y_max = Num(hi)
            /\ (hi > lo /\ v.v = lo) => out.y = OneHot(0)
            /\ (hi > lo /\ v.v = hi) => out.y = OneHot(3)
            /\ (hi > lo /\ v.v = lo + r \div 4) => out.y = OneHot(0)
            /\ (hi > lo /\ v.v = lo + r \div 2) => out.y = OneHot(1)
            /\ (hi > lo /\ v.v = lo + (3 * r) \div 4) => out.y = OneHot(2)
            /\ hi = lo => out.y = OneHot(0)

\* A noisy dataset of three records whose label values are the least, the
\* midpoint and the greatest of its range returned the label of bracket 1
\* for the record at the midpoint.
C15_Witness ==
    /\ out.op = "getitem"
    /\ ds.cls = "ODEDatasetClassifierNoisy"
    /\ len(ds) = 3
    /\ Lt(ds.y_min, ds.y_max)
    /\ LabelValue(ds, out.idx) = Half(Add(ds.y_min, ds.y_max))
    /\ \E i, j \in 0..2 : LabelValue(ds, i) = ds.y_min /\ LabelValue(ds, j) = ds.y_max
    /\ out.y = OneHot(1)

\* The frame a dataset of the main run clipped: the file without its index
\* column for the clean one, with the noise drawn added for the noisy one.
ClippedFrame(r, loader) ==
    IF loader = 0 THEN mask(DropFirstColumn(read_csv(csv)))
    ELSE mask(AddFrame(DropFirstColumn(read_csv(csv)), r.noise))

\* The three thresholds of bracket for a range.
Thresholds(y_min, y_max) ==
    LET y_mid == Half(Add(y_min, y_max))
    IN  {Half(Add(y_mid, y_min)), y_mid, Half(Add(y_mid, y_max))}

\* C16 as claimed: for every record of a batch lazy_classifier.test_step
\* predicts bracket(exp(x[value])) against the y_min and y_max given at
\* construction, x[value] being the stored logarithm of the clipped pre
\* field of the selected variable; since exp undoes the log the prediction
\* is the bracket of the clipped pre value, and it equals the record's
\* label index exactly when the clipped pre value and the post value of
\* that variable fall in the same bracket of the dataset's range.
C16_LazyPredictsPreBracket ==
    run.last.op = "test_step" =>
        LET self == run.lazy_model
            d == EvalDataset(run, run.last.dataloader_idx)
            clipped == ClippedFrame(run, run.last.dataloader_idx)
        IN  /\ self.y_min = run.dataset.y_min /\ self.y_max = run.dataset.y_max
            /\ \A i \in DOMAIN run.last.prediction :
                  LET x == d.data.rows[i + 1][self.value + 1]
                      pre == clipped.rows[i + 1][self.value + 1]
                      post == clipped.rows[i + 1][NumPre + d.atr + 1]
                  IN  /\ x = Log(pre)
                      /\ run.last.prediction[i] =
                             lazy_classifier_bracket(self.y_min, self.y_max, Exp(x))
                      /\ run.last.prediction[i] =
                             lazy_classifier_bracket(self.y_min, self.y_max, pre)
                      /\ run.last.prediction[i] = run.last.target[i]
                             <=> lazy_classifier_bracket(self.y_min, self.y_max, pre)
                                   = lazy_classifier_bracket(self.y_min, self.y_max, post)

\* C16, amended: the prediction is bracket(exp(x[value])) against the clean
\* dataset's y_min and y_max, for the records of both loaders; exp gives the
\* clipped pre value back up to rounding, so the prediction is the bracket
\* of the clipped pre value unless that value is one of the three
\* thresholds; the label index is the bracket of the post value in the
\* range of the record's own dataset (the clean range for the clean loader,
\* the range of the noisy label column for the noisy one); for a record
\* whose pre value is no threshold the prediction equals the label index
\* exactly when the bracket of the pre value in the clean range is the
\* bracket of the post value in the range of the record's dataset.
C16_LazyPredictsRoundedPreBracket ==
    run.last.op = "test_step" =>
        LET self == run.lazy_model
            d == EvalDataset(run, run.last.dataloader_idx)
            clipped == ClippedFrame(run, run.last.dataloader_idx)
        IN  /\ self.y_min = run.dataset.y_min /\ self.y_max = run.dataset.y_max
            /\ DOMAIN run.last.prediction = EvalSubset(run, run.last.dataloader_idx)
            /\ \A i \in DOMAIN run.last.prediction :
                  LET x == d.data.rows[i + 1][self.value + 1]
                      pre == clipped.rows[i + 1][self.value + 1]
                      post == clipped.rows[i + 1][NumPre + d.atr + 1]
                      exact == pre \notin Thresholds(self.y_min, self.y_max)
                  IN  /\ x = Log(pre)
                      /\ run.last.prediction[i] =
                             lazy_classifier_bracket(self.y_min, self.y_max, Exp(x))
                      /\ exact => run.last.prediction[i] =
                             lazy_classifier_bracket(self.y_min, self.y_max, pre)
                      /\ run.last.target[i] = bracket(d.cls, d.y_min, d.y_max, post)
                      /\ exact =>
                             (run.last.prediction[i] = run.last.target[i]
                                <=> lazy_classifier_bracket(self.y_min, self.y_max, pre)
                                      = bracket(d.cls, d.y_min, d.y_max, post))

\* The lazy model has been evaluated on a batch of the clean loader with a
\* record whose virus load is at the floor before and lowest after:
\* predicted 0, labelled 0, counted as correct.
C16_Witness ==
    /\ run.last.op = "test_step"
    /\ run.last.dataloader_idx = 0
    /\ \E i \in DOMAIN run.last.prediction :
          /\ run.last.prediction[i] = 0
          /\ run.last.target[i] = 0
          /\ IsNum(run.dataset.data.rows[i + 1][run.lazy_model.value + 1])
          /\ Exp(run.dataset.data.rows[i + 1][run.lazy_model.value + 1])
                \notin Thresholds(run.lazy_model.y_min, run.lazy_model.y_max)
    /\ run.last.correct >= 1

\* C17: the label index survives one-hot encoding.  For every record of a
\* batch the argmax of the one-hot label __getitem__ returned is bracket(v)
\* of the record's stored label value v; for every lazy prediction p, one of
\* 0..3, the argmax of one_hot(p, 4) is p; so the accuracy of test_step and
\* of validation_step counts the records whose predicted index is the
\* bracket index of the label.
C17_ArgMaxOfOneHot ==
    run.last.op \in {"test_step", "validation_step"} =>
        LET d == EvalDataset(run, run.last.dataloader_idx)
            members == EvalSubset(run, run.last.dataloader_idx)
            index(i) == bracket(d.cls, d.y_min, d.y_max, LabelValue(d, i))
        IN  /\ DOMAIN run.last.prediction = members
            /\ DOMAIN run.last.target = members
            /\ \A i \in members :
                  /\ ArgMaxRow(getitem(d, i).y) = index(i)
                  /\ run.last.target[i] = index(i)
                  /\ run.last.prediction[i] \in 0..(NumClasses - 1)
                  /\ run.last.op = "test_step" =>
                        /\ run.last.one_hots[i] = OneHot(run.last.prediction[i])
                        /\ ArgMaxRow(run.last.one_hots[i]) = run.last.prediction[i]
            /\ run.last.correct =
                  Cardinality({i \in members : run.last.prediction[i] = index(i)})

\* A validation step on the noisy loader in which the network predicted
\* class 3 for a record labelled 3.
C17_Witness ==
    /\ run.last.op = "validation_step"
    /\ run.last.dataloader_idx = 1
    /\ \E i \in DOMAIN run.last.prediction :
          /\ run.last.prediction[i] = 3
          /\ getitem(run.noisy_dataset, i).y = <<0, 0, 0, 1>>
    /\ run.last.correct = 1

\* C18: dataset reads are repeatable.  __len__ is the number of data rows
\* of the source file; __getitem__(idx) returns the features and the label
\* of the stored row idx, and no read changes the dataset, so two calls
\* with one idx return the same at any point; the noise of the noisy class
\* is drawn once, in the construction, and never after it.
C18_RepeatableReads ==
    /\ [](out.op = "len" => out.n = Len(csv.rows))
    /\ [](out.op = "getitem" =>
            /\ Ready(ds)
            /\ out.idx \in 0..(Len(csv.rows) - 1)
            /\ out.x = SubSeq(ds.data.rows[out.idx + 1], 1, NumPre)
            /\ ds.cls \in ClassifierDatasets =>
                  out.y = OneHot(bracket(ds.cls, ds.y_min, ds.y_max,
                                         LabelValue(ds, out.idx)))
            /\ ds.cls = "ODEDataset" =>
                  out.y = SubSeq(ds.data.rows[out.idx + 1], NumPre + 1, NumCols))
    /\ [](hist.noised = IF Executed(ds, "noise") THEN 1 ELSE 0)
    /\ [][Ready(ds) => (ds' = ds /\ hist' = hist /\ csv' = csv)]_vars

\* A record of a noisy dataset built with nonzero noise has been read.
C18_Witness ==
    /\ out.op = "getitem"
    /\ ds.cls = "ODEDatasetClassifierNoisy"
    /\ hist.noised = 1
    /\ \E r \in DOMAIN hist.noise : hist.noise[r][1] # Whole(0)
    /\ len(ds) >= 2
    /\ out.idx = 1

\* The batches of the evaluation loaders, as (loader, batch) pairs.
EvalBatches(r) ==
    UNION {{<<l, b>> : b \in 0..(EvalLoaderSizes(r)[l + 1] - 1)} : l \in 0..1}

\* C19: the stages of the main run happen in a fixed order.  Both datasets
\* are built and split; then the lazy baseline is evaluated once over the
\* clean testing loader (index 0) and the noisy testing loader (index 1);
\* only when that evaluation has finished does the training of the network
\* start.  During training every validation pass covers both loaders and
\* logs loss and accuracy under names that carry the loader index, so no
\* name receives values from two loaders.
C19_StageOrder ==
    /\ \E k \in 0..Len(Stages) : run.started = SubSeq(Stages, 1, k)
    /\ ~run.revisited
    /\ "test" \in Range(run.started) =>
          /\ Ready(run.dataset) /\ Ready(run.noisy_dataset)
          /\ run.split.training \cup run.split.testing = 0..(len(run.dataset) - 1)
          /\ run.noisy_split.training \cup run.noisy_split.testing
                = 0..(len(run.noisy_dataset) - 1)
    /\ "test" \notin Range(run.started) => run.visits = {}
    /\ "fit" \notin Range(run.started) =>
          /\ run.steps = 0
          /\ \A v \in run.visits : v[1] = "test_step"
          /\ \A w \in run.written : w[1][1] = LazyLogger
          /\ \A v \in run.visits :
                v[3] = 1 => \A e \in EvalBatches(run) :
                               e[1] = 0 => <<"test_step", 0, e[1], e[2]>> \in run.visits
    /\ "fit" \in Range(run.started) =>
          /\ {<<v[3], v[4]>> : v \in {u \in run.visits : u[1] = "test_step"}}
                = EvalBatches(run)
          /\ \A l \in 0..1 : StepMetrics(LazyLogger, l) \subseteq run.logged
          /\ \A epoch \in 0..(run.epoch - 1) :
                /\ \A e \in EvalBatches(run) :
                      <<"validation_step", epoch, e[1], e[2]>> \in run.visits
                /\ \A l \in 0..1 : StepMetrics(FitLogger, l) \subseteq run.logged
    /\ \A w \in run.written :
          /\ \A l \in 0..1 : w[2] = EvalLoaders[l + 1] => w[1][3] = l
          /\ \A u \in run.written : u[1] = w[1] => u[2] = w[2]

\* The run has ended after the lazy evaluation and the epochs of training,
\* with the metrics of both loaders written by both trainers.
C19_Witness ==
    /\ run.pc = "done"
    /\ run.started = Stages
    /\ run.epoch = EpochCap
    /\ \A l \in 0..1 :
          /\ <<<<LazyLogger, "accuracy loader: ", l>>, EvalLoaders[l + 1]>> \in run.written
          /\ <<<<FitLogger, "accuracy loader: ", l>>, EvalLoaders[l + 1]>> \in run.written

\* C20: the main run terminates when no stage fails.  The lazy evaluation
\* visits each batch of the two testing loaders once and ends; training
\* ends after at most max_epochs epochs (EpochCap in the model), each epoch
\* visiting each batch of the noisy training loader once.
C20_Terminates ==
    /\ <>(run.pc = "done" \/ run.failed # "none")
    /\ [](run.epoch <= EpochCap /\ ~run.revisited)
    /\ [](run.pc = "done" =>
            /\ run.failed = "none"
            /\ {<<v[3], v[4]>> : v \in {u \in run.visits : u[1] = "test_step"}}
                  = EvalBatches(run)
            /\ {<<v[2], v[4]>> : v \in {u \in run.visits : u[1] = "training_step"}}
                  = (0..(run.epoch - 1))
                       \X (0..(NumBatches(Cardinality(run.noisy_split.training)) - 1))
            /\ run.steps = run.epoch * NumBatches(Cardinality(run.noisy_split.training)))

\* The script has ended without a failure, the last epoch trained.
C20_Witness ==
    /\ run.pc = "done"
    /\ run.failed = "none"
    /\ run.steps = EpochCap * NumBatches(Cardinality(run.noisy_split.training))
    /\ run.steps >= 2
    /\ <<"training_step", EpochCap - 1, 0, 0>> \in run.visits

====
